---- MODULE Spec2Model ----
(***************************************************************************)
(* Model of BrowserLikeWindow (src/index.js): the tab / BrowserView        *)
(* lifecycle manager of the browser shell.                                 *)
(*                                                                         *)
(* A BrowserView is identified by its id (view.id = view.webContents.id).  *)
(* URLs are sequences of string tokens, so that String.includes,           *)
(* String.replace and the file-url construction are computed on them.      *)
(*                                                                         *)
(* Platform behaviour the code relies on (BrowserWindow of Electron):      *)
(* removeBrowserView / addBrowserView given a value that is not a          *)
(* BrowserView (null, undefined) do nothing; newTab relies on this when    *)
(* the first tab is opened (removeBrowserView(null)).                      *)
(* webContents.destroy() does not remove the BrowserView from the window.  *)
(***************************************************************************)
EXTENDS Integers, Sequences, FiniteSets, TLC

VARIABLES defCurrentViewId, defTabConfigs, views, tabs, ipc,
          wc, attached, nextId, options, notes, calls, err, last, msgs,
          controlView, listening, printers, activeUpdate, tabsUpdate

vars == <<defCurrentViewId, defTabConfigs, views, tabs, ipc,
          wc, attached, nextId, options, notes, calls, err, last, msgs,
          controlView, listening, printers, activeUpdate, tabsUpdate>>

\* ---------------------------------------------------------------- bounds
\* number of BrowserViews created in one run of the lifecycle specification
MaxViews == 3
\* number of BrowserViews created in one run of the navigation specification
NavMaxViews == 1
\* number of ipc messages handled in one run of the navigation specification
MaxMsgs == 3

\* ---------------------------------------------------------------- values
\* JavaScript null (also used for the property key "null")
Null == -1
\* JavaScript undefined as the value of a property that is present
Undef == [undefined |-> TRUE]
\* an object without own properties
EmptyObj == [k \in {} |-> TRUE]
\* the empty string
Empty == <<>>

Truthy(id) == id # Null /\ id # 0

\* ---------------------------------------------------------------- URLs
PX == "px://"
RendererDir == "file:///app/main/renderer/"
BuiltinPages == {"settings", "about", "help", "web_fail_code", "credits"}

\* fileUrl(`${__dirname}/main/renderer/${name}.html`)
FileUrl(name) == <<RendererDir>> \o name \o <<".html">>

\* String.prototype.includes
Includes(s, t) ==
  \E i \in 0..(Len(s) - Len(t)) : \A j \in 1..Len(t) : s[i + j] = t[j]

\* String.prototype.replace(t, "") for a one-token pattern: first occurrence
ReplaceFirst(s, tok) ==
  IF \E i \in 1..Len(s) : s[i] = tok
    THEN LET i == CHOOSE k \in 1..Len(s) :
                    s[k] = tok /\ \A m \in 1..(k - 1) : s[m] # tok
         IN  SubSeq(s, 1, i - 1) \o SubSeq(s, i + 1, Len(s))
    ELSE s

Web == <<"http://a/">>
Virtual(name) == <<PX, name>>
BlankUrl == <<"file:///app/newtab.html">>
BlankTitle == "about:blank"

\* an address without a host, and a string that is not an address
AboutBlank == <<"about:blank">>
NotAUrl == <<"not a url">>

\* new URL(url) returns: the string starts with a scheme
UrlParses(url) ==
  url # Empty /\ url[1] \in {"http://a/", "http://b/", "about:blank", PX,
                             RendererDir, "file:///app/newtab.html"}

\* new URL(url).host
UrlHost(url) ==
  IF url[1] = "http://a/" THEN "a"
  ELSE IF url[1] = "http://b/" THEN "b"
  ELSE IF url[1] = PX /\ Len(url) > 1 THEN url[2]
  ELSE ""

\* ---------------------------------------------------------------- arrays
\* Array.prototype.indexOf (0-based, -1 when absent)
IndexOf(seq, x) ==
  IF \E i \in 1..Len(seq) : seq[i] = x
    THEN (CHOOSE i \in 1..Len(seq) :
            seq[i] = x /\ \A m \in 1..(i - 1) : seq[m] # x) - 1
    ELSE -1

\* Array.prototype.splice(start, 0, x) for 0 <= start <= length
Splice(seq, start, x) ==
  SubSeq(seq, 1, start) \o <<x>> \o SubSeq(seq, start + 1, Len(seq))

\* Array.prototype.filter(v => v !== x)
RECURSIVE Filter(_, _)
Filter(seq, x) ==
  IF seq = <<>> THEN <<>>
  ELSE IF Head(seq) = x THEN Filter(Tail(seq), x)
       ELSE <<Head(seq)>> \o Filter(Tail(seq), x)

\* seq[i] with a 0-based index; undefined (Null) when out of range
At(seq, i) == IF i >= 0 /\ i < Len(seq) THEN seq[i + 1] ELSE Null

Range(seq) == {seq[i] : i \in 1..Len(seq)}

\* ---------------------------------------------------------------- state
State == [defCurrentViewId |-> defCurrentViewId, defTabConfigs |-> defTabConfigs,
          views |-> views, tabs |-> tabs, ipc |-> ipc, wc |-> wc,
          attached |-> attached, nextId |-> nextId, options |-> options,
          notes |-> <<>>, calls |-> <<>>, err |-> FALSE,
          controlView |-> controlView, listening |-> listening,
          printers |-> printers, activeUpdate |-> activeUpdate,
          tabsUpdate |-> tabsUpdate]

\* no message of a kind has been sent to the control panel yet
NoNote == [type |-> "none"]

\* a new webContents
NewWebContents == [destroyed |-> FALSE, destroys |-> 0, marks |-> FALSE, subs |-> 0,
                   url |-> Empty, phase |-> "idle", target |-> Empty,
                   canGoBack |-> FALSE, canGoForward |-> FALSE]

\* get currentView: the BrowserView of currentViewId, Null when there is none
CurrentView(s) ==
  IF Truthy(s.defCurrentViewId) /\ s.defCurrentViewId \in s.views
    THEN s.defCurrentViewId ELSE Null

\* a method invoked on a view's webContents
Call(s, id, method, arg) ==
  [s EXCEPT !.calls = Append(@, [id |-> id, method |-> method, arg |-> arg])]

\* this.ipc.reply(...): the message is sent when this.ipc is set
Reply(s, note) ==
  IF s.ipc
    THEN [s EXCEPT !.notes = Append(@, note),
                   !.activeUpdate = IF note.type = "active-update"
                                      THEN note ELSE @,
                   !.tabsUpdate = IF note.type = "tabs-update"
                                    THEN note ELSE @]
    ELSE s

\* set currentViewId(id)
SetCurrentViewId(s, id) ==
  Reply([s EXCEPT !.defCurrentViewId = id],
        [type |-> "active-update", id |-> id])

\* set tabConfigs(v)
\* a setter of tabConfigs that sends the store it replaces
SetTabConfigsStale(s, v) ==
  Reply([s EXCEPT !.defTabConfigs = v],
        [type |-> "tabs-update", confs |-> s.defTabConfigs, tabs |-> s.tabs])

SetTabConfigs(s, v) ==
  Reply([s EXCEPT !.defTabConfigs = v],
        [type |-> "tabs-update", confs |-> v, tabs |-> s.tabs])

\* { ...obj, [key]: value }
WithKey(obj, key, value) ==
  [k \in DOMAIN obj \cup {key} |-> IF k = key THEN value ELSE obj[k]]

\* this.tabConfigs[viewId], spread into an object literal
TabOf(s, viewId) ==
  IF viewId \in DOMAIN s.defTabConfigs /\ s.defTabConfigs[viewId] # Undef
    THEN s.defTabConfigs[viewId] ELSE EmptyObj

\* a setTabConfig that does not spread the entry the tab had
SetTabConfigFresh(s, viewId, kv) ==
  LET live == IF viewId \in s.views
                THEN [canGoBack |-> s.wc[viewId].canGoBack,
                      canGoForward |-> s.wc[viewId].canGoForward]
                ELSE EmptyObj
  IN  SetTabConfigs(s, WithKey(s.defTabConfigs, viewId, kv @@ live))

\* setTabConfig(viewId, kv); canGoBack / canGoForward are undefined (left
\* out of the entry here) when this.views[viewId] is undefined
SetTabConfig(s, viewId, kv) ==
  LET live == IF viewId \in s.views
                THEN [canGoBack |-> s.wc[viewId].canGoBack,
                      canGoForward |-> s.wc[viewId].canGoForward]
                ELSE EmptyObj
  IN  SetTabConfigs(s, WithKey(s.defTabConfigs, viewId,
                               kv @@ live @@ TabOf(s, viewId)))

\* webContents.loadURL(url)
WebContentsLoadURL(s, id, url) ==
  Call([s EXCEPT !.wc[id].phase = "requested", !.wc[id].target = url],
       id, "loadURL", url)

\* a loadURL that does not test the mark of the webContents
LoadURLUnmarked(s, url) ==
  LET id == CurrentView(s) IN
  IF url = Empty \/ id = Null THEN s
  ELSE LET s1 == [s EXCEPT !.wc[id].subs = @ + 1, !.printers = @ + 1]
           s2 == WebContentsLoadURL(s1, id, url)
       IN  [s2 EXCEPT !.wc[id].marks = TRUE]

\* loadURL(url)
LoadURL(s, url) ==
  LET id == CurrentView(s) IN
  IF url = Empty \/ id = Null THEN s
  ELSE IF s.wc[id].marks
    THEN WebContentsLoadURL(s, id,
           IF Includes(url, <<PX>>)
             THEN FileUrl(ReplaceFirst(url, PX)) ELSE url)
    ELSE LET s1 == [s EXCEPT !.wc[id].subs = @ + 1, !.printers = @ + 1]
             s2 == WebContentsLoadURL(s1, id, url)
         IN  [s2 EXCEPT !.wc[id].marks = TRUE]

\* setCurrentView(viewId)
SetCurrentView(s, viewId) ==
  IF ~Truthy(viewId) THEN s
  ELSE LET s1 == [s EXCEPT !.attached = @ \ {CurrentView(s)}]
           s2 == [s1 EXCEPT !.attached =
                     IF viewId \in s.views THEN @ \cup {viewId} ELSE @]
       IN  SetCurrentViewId(s2, viewId)

\* newTab that ignores appendTo
InsertIndexAtEnd(tabsNow, appendTo) == Len(tabsNow)

\* the index at which newTab puts the new id into this.tabs
InsertIndex(tabsNow, appendTo) ==
  IF Truthy(appendTo) THEN IndexOf(tabsNow, appendTo) + 1 ELSE Len(tabsNow)

\* newTab(url, appendTo)
NewTab(s, url, appendTo) ==
  LET id == s.nextId
      s1 == [s EXCEPT !.nextId = @ + 1,
                      !.wc = WithKey(@, id, NewWebContents),
                      !.tabs = Splice(@, InsertIndex(@, appendTo), id),
                      !.views = @ \cup {id}]
      s2 == SetCurrentView(s1, id)
      s3 == LoadURL(s2, IF url = Empty THEN s.options.blankPage ELSE url)
  IN  SetTabConfig(s3, id, [title |-> BlankTitle])

\* switchTab(viewId); this.currentView.webContents throws a TypeError when
\* there is no current view
SwitchTab(s, viewId) ==
  LET s1 == SetCurrentView(s, viewId) IN
  IF CurrentView(s1) = Null THEN [s1 EXCEPT !.err = TRUE]
  ELSE Call(s1, CurrentView(s1), "focus", Empty)

\* a destroyView that leaves the BrowserView in this.views
DestroyViewKept(s, viewId) ==
  IF viewId \in s.views
    THEN Call([s EXCEPT !.wc[viewId].destroyed = TRUE,
                        !.wc[viewId].destroys = @ + 1],
              viewId, "destroy", Empty)
    ELSE s

\* destroyView(viewId)
DestroyView(s, viewId) ==
  IF viewId \in s.views
    THEN Call([s EXCEPT !.wc[viewId].destroyed = TRUE,
                        !.wc[viewId].destroys = @ + 1,
                        !.views = @ \ {viewId}], viewId, "destroy", Empty)
    ELSE s

\* a close-tab handler that does not wrap to the first tab
NextIndexNoWrap(tabsNow, id) == IndexOf(tabsNow, id) + 1

\* the tab the close-tab handler makes current when the current tab closes
NextIndex(tabsNow, id) ==
  LET removeIndex == IndexOf(tabsNow, id) IN
  IF removeIndex = Len(tabsNow) - 1 THEN 0 ELSE removeIndex + 1

\* 'close-tab' listener
CloseTab(s, id) ==
  LET s1 == IF id = s.defCurrentViewId
              THEN SetCurrentView(s, At(s.tabs, NextIndex(s.tabs, id)))
              ELSE s
      s2 == [s1 EXCEPT !.tabs = Filter(@, id)]
      s3 == SetTabConfigs(s2, WithKey(s2.defTabConfigs, id, Undef))
      s4 == DestroyView(s3, id)
  IN  IF Len(s4.tabs) = 0 THEN NewTab(s4, Empty, Null) ELSE s4

\* a control-ready listener that keeps the ipc event after opening the tab
ControlReadyLate(s) ==
  [NewTab(s, s.options.startPage, Null) EXCEPT !.ipc = TRUE]

\* 'control-ready' listener
ControlReadyH(s) == NewTab([s EXCEPT !.ipc = TRUE], s.options.startPage, Null)

\* 'url-change' listener
UrlChange(s, url) == SetTabConfig(s, s.defCurrentViewId, [url |-> url])

\* the functions of a webContents that the model gives an effect to
WebContentsMethods == {"reload", "stop", "focus"}

\* webContents.reload(): a navigation to the current URL is requested
WebContentsReload(s, id) ==
  Call([s EXCEPT !.wc[id].phase = "requested", !.wc[id].target = s.wc[id].url],
       id, "reload", Empty)

\* webContents.stop(): a navigation that has not started loading is dropped
WebContentsStop(s, id) ==
  Call([s EXCEPT !.wc[id].phase = IF @ = "requested" THEN "idle" ELSE @],
       id, "stop", Empty)

\* webContents.focus(): the navigation of the view is not touched
WebContentsFocus(s, id) == Call(s, id, "focus", Empty)

\* action.call(webContents) for a property of webContents that is a function
ActionCall(s, id, actionName) ==
  IF actionName = "reload" THEN WebContentsReload(s, id)
  ELSE IF actionName = "stop" THEN WebContentsStop(s, id)
  ELSE WebContentsFocus(s, id)

\* webContentsAct without the test of getURL()
WebContentsActAlways(s, actionName) ==
  LET id == CurrentView(s) IN
  IF id # Null /\ actionName \in WebContentsMethods
    THEN ActionCall(s, id, actionName)
    ELSE s

\* webContentsAct(actionName)
WebContentsAct(s, actionName) ==
  LET id == CurrentView(s) IN
  IF id # Null /\ actionName \in WebContentsMethods
    THEN IF actionName = "reload" /\ s.wc[id].url = Empty THEN s
         ELSE ActionCall(s, id, actionName)
    ELSE s

\* the physical -> virtual translation of one built-in page
Translate(href, page, name) ==
  IF Includes(href, FileUrl(<<page>>)) THEN <<PX, name>> ELSE href

\* the address the 'did-start-navigation' listener writes for href
Rewrite(s, href) ==
  LET h0 == IF href = s.options.blankPage THEN Empty ELSE href
      h1 == Translate(h0, "settings", "settings")
      h2 == Translate(h1, "about", "about")
      h3 == Translate(h2, "help", "help")
      h4 == Translate(h3, "web_fail_code", "network-error")
  IN  Translate(h4, "credits", "credits")

\* 'did-start-loading' listener
DidStartLoadingH(s, id) == SetTabConfig(s, id, [isLoading |-> TRUE])

\* the address of the error page for a failed url
ErrorPage(url) == FileUrl(<<"web_fail_code">>) \o <<"?url=">> \o url

\* 'did-fail-load' listener
DidFailLoadH(s, id, url) ==
  SetTabConfig(WebContentsLoadURL(s, id, ErrorPage(url)), id,
               [isLoading |-> FALSE])

\* 'did-start-navigation' listener
DidStartNavigationH(s, id, href, isMainFrame) ==
  IF isMainFrame
    THEN SetTabConfig(s, id, [url |-> Rewrite(s, href),
                              href |-> Rewrite(s, href)])
    ELSE s

\* 'will-redirect' listener
WillRedirectH(s, id, href) == SetTabConfig(s, id, [url |-> href, href |-> href])

\* 'page-title-updated' listener
PageTitleUpdatedH(s, id, title) == SetTabConfig(s, id, [title |-> title])

\* 'page-favicon-updated' listener
PageFaviconUpdatedH(s, id, favicon) == SetTabConfig(s, id, [favicon |-> favicon])

\* 'did-stop-loading' listener
DidStopLoadingH(s, id) == SetTabConfig(s, id, [isLoading |-> FALSE])

\* 'dom-ready' listener
DomReadyH(s, id) == Call(s, id, "focus", Empty)

\* the webContents a message comes from: the control panel of this window,
\* or the control panel of another BrowserLikeWindow of the process
Own == "own"
Other == "other"

\* the listener of a channel as bound to ipcMain, with no test of the sender
ListenerFromAnyone(s, sender, handled) == handled

\* the listener of a channel as bound to ipcMain: the handler runs (and s
\* becomes handled) when the message comes from this window's control panel
Listener(s, sender, handled) ==
  IF s.controlView /\ sender = Own THEN handled ELSE s

\* win 'closed' listener: destroyView for each id of this.tabs
\* a message on a channel of `channels`: it reaches the listener only while
\* the listener is bound to ipcMain
Deliver(s, sender, handled) ==
  IF s.listening THEN Listener(s, sender, handled) ELSE s

RECURSIVE DestroyAll(_, _)
DestroyAll(s, ids) ==
  IF ids = <<>> THEN s ELSE DestroyAll(DestroyView(s, Head(ids)), Tail(ids))

\* win 'closed' listener
WinClosedH(s) ==
  [DestroyAll([s EXCEPT !.listening = FALSE], s.tabs)
     EXCEPT !.controlView = FALSE]

\* 'set-browseview' listener: this.controlView.webContents throws a
\* TypeError when this.controlView is null
SetBrowseViewH(s) == IF s.controlView THEN s ELSE [s EXCEPT !.err = TRUE]

\* printView(viewId, device)
PrintView(s, viewId) ==
  IF viewId \in s.views THEN Call(s, viewId, "print", Empty) ELSE s

\* the 'print-webContent' listeners, one added by each subscription of
\* loadURL; this.currentView.id throws a TypeError without a current view,
\* and the listeners after the throwing one do not run
RECURSIVE PrintListeners(_, _)
PrintListeners(s, n) ==
  IF n = 0 THEN s
  ELSE IF CurrentView(s) = Null THEN [s EXCEPT !.err = TRUE]
  ELSE PrintListeners(PrintView(s, CurrentView(s)), n - 1)

\* ---------------------------------------------------------------- actions
\* the state after a handler has run
Becomes(s, cmd) ==
  /\ defCurrentViewId' = s.defCurrentViewId
  /\ defTabConfigs' = s.defTabConfigs
  /\ views' = s.views
  /\ tabs' = s.tabs
  /\ ipc' = s.ipc
  /\ wc' = s.wc
  /\ attached' = s.attached
  /\ nextId' = s.nextId
  /\ options' = s.options
  /\ notes' = s.notes
  /\ calls' = s.calls
  /\ err' = s.err
  /\ controlView' = s.controlView
  /\ listening' = s.listening
  /\ printers' = s.printers
  /\ activeUpdate' = s.activeUpdate
  /\ tabsUpdate' = s.tabsUpdate
  /\ last' = cmd

\* the handler that ran last, its arguments, and this.currentViewId and
\* this.tabs as they were when it started
Cmd(op, id, url) == [op |-> op, id |-> id, url |-> url,
                     prevId |-> defCurrentViewId, prevTabs |-> tabs]

\* ids a message can carry: ids of views, of closed views and of no view
IdArgs(limit) == 1..limit

Init ==
  /\ defCurrentViewId = Null
  /\ defTabConfigs = EmptyObj
  /\ views = {}
  /\ tabs = <<>>
  /\ ipc = FALSE
  /\ wc = EmptyObj
  /\ attached = {}
  /\ nextId = 1
  /\ options \in [blankPage : {Empty, BlankUrl}, startPage : {Empty, Web}]
  /\ notes = <<>>
  /\ calls = <<>>
  /\ err = FALSE
  /\ last = [op |-> "init", id |-> Null, url |-> Empty,
             prevId |-> Null, prevTabs |-> <<>>]
  /\ msgs = 0
  /\ controlView = TRUE
  /\ listening = TRUE
  /\ printers = 0
  /\ activeUpdate = NoNote
  /\ tabsUpdate = NoNote

\* ipc message 'control-ready'
ControlReady(limit) ==
  /\ nextId <= limit
  /\ Becomes(Deliver(State, Own, ControlReadyH(State)),
             Cmd("control-ready", Null, Empty))

\* ipc message 'new-tab' (url)
NewTabMsg(limit) ==
  /\ nextId <= limit
  /\ \E url \in {Empty, Web} :
       Becomes(Deliver(State, Own, NewTab(State, url, Null)),
               Cmd("new-tab", Null, url))

\* the public method newTab(url, appendTo) called by the embedding program
NewTabCall(limit) ==
  /\ nextId <= limit
  /\ \E appendTo \in 1..limit :
       Becomes(NewTab(State, Web, appendTo), Cmd("newTab", appendTo, Web))

\* ipc message 'switch-tab' (id)
SwitchTabMsg(limit) ==
  \E id \in IdArgs(limit) :
    /\ Becomes(Deliver(State, Own, SwitchTab(State, id)),
               Cmd("switch-tab", id, Empty))

\* ipc message 'close-tab' (id)
CloseTabMsg(limit) ==
  \E id \in IdArgs(limit) :
    /\ nextId <= limit \/ Len(Filter(tabs, id)) > 0
    /\ Becomes(Deliver(State, Own, CloseTab(State, id)),
               Cmd("close-tab", id, Empty))

\* the lifecycle of the tabs: the commands that open, switch and close tabs
Next ==
  \/ ControlReady(MaxViews) /\ UNCHANGED msgs
  \/ NewTabMsg(MaxViews) /\ UNCHANGED msgs
  \/ NewTabCall(MaxViews) /\ UNCHANGED msgs
  \/ SwitchTabMsg(MaxViews) /\ UNCHANGED msgs
  \/ CloseTabMsg(MaxViews) /\ UNCHANGED msgs

Spec == Init /\ [][Next]_vars

\* ------------------------------------------------ navigation of the views
\* ipc message 'url-change' (url): the text typed into the address bar
UrlChangeMsg ==
  \E url \in {<<"typed">>} :
    /\ Becomes(Deliver(State, Own, UrlChange(State, url)),
               Cmd("url-change", Null, url))

\* ipc message 'url-enter' (url)
UrlEnterMsg ==
  \E url \in {Web, Virtual("settings")} :
    /\ Becomes(Deliver(State, Own, LoadURL(State, url)),
               Cmd("url-enter", Null, url))

\* ipc message 'act' (actName); "back" is not a function of a webContents
ActMsg ==
  \E name \in {"reload", "stop", "back", "focus"} :
    /\ Becomes(Deliver(State, Own, WebContentsAct(State, name)),
               Cmd("act", Null, <<name>>))

\* a webContents that emits events to the listeners loadURL has subscribed
Emits(id) == id \in DOMAIN wc /\ ~wc[id].destroyed /\ wc[id].subs > 0

\* the state record with one webContents changed by the platform
Platform(id, phase, url, target, canGoBack) ==
  [State EXCEPT !.wc[id].phase = phase, !.wc[id].url = url,
                !.wc[id].target = target, !.wc[id].canGoBack = canGoBack]

\* onNewWindow(e, newUrl, frameName, disposition); new URL throws a
\* TypeError for a string it cannot parse
OnNewWindow(s, id, newUrl, disposition) ==
  IF ~UrlParses(newUrl) THEN [s EXCEPT !.err = TRUE]
  ELSE IF UrlHost(newUrl) = "" THEN s
  ELSE IF disposition = "new-window" THEN s
  ELSE NewTab(s, newUrl, id)

\* listeners that merge under the id of the tab that is active
OnActive(s, id, event, arg) ==
  CASE event = "did-start-loading" -> DidStartLoadingH(s, s.defCurrentViewId)
    [] event = "did-fail-load" -> DidFailLoadH(s, id, arg)
    [] event = "did-start-navigation" ->
         DidStartNavigationH(s, s.defCurrentViewId, arg.href, arg.isMainFrame)
    [] event = "will-redirect" -> WillRedirectH(s, s.defCurrentViewId, arg)
    [] event = "page-title-updated" ->
         PageTitleUpdatedH(s, s.defCurrentViewId, arg)
    [] event = "page-favicon-updated" ->
         PageFaviconUpdatedH(s, s.defCurrentViewId, arg)
    [] event = "did-stop-loading" -> DidStopLoadingH(s, s.defCurrentViewId)
    [] event = "dom-ready" -> DomReadyH(s, id)
    [] event = "new-window" -> OnNewWindow(s, id, arg.url, arg.disposition)

\* the listener loadURL subscribes to an event of the webContents
On(s, id, event, arg) ==
  CASE event = "did-start-loading" -> DidStartLoadingH(s, id)
    [] event = "did-fail-load" -> DidFailLoadH(s, id, arg)
    [] event = "did-start-navigation" ->
         DidStartNavigationH(s, id, arg.href, arg.isMainFrame)
    [] event = "will-redirect" -> WillRedirectH(s, id, arg)
    [] event = "page-title-updated" -> PageTitleUpdatedH(s, id, arg)
    [] event = "page-favicon-updated" -> PageFaviconUpdatedH(s, id, arg)
    [] event = "did-stop-loading" -> DidStopLoadingH(s, id)
    [] event = "dom-ready" -> DomReadyH(s, id)
    [] event = "new-window" -> OnNewWindow(s, id, arg.url, arg.disposition)

\* webContents emits an event: the listener runs once for every time
\* loadURL has subscribed it
RECURSIVE Emit(_, _, _, _, _)
Emit(s, id, event, arg, n) ==
  IF n = 0 THEN s ELSE Emit(On(s, id, event, arg), id, event, arg, n - 1)

\* the view starts to load what was requested of it
DidStartLoading ==
  \E id \in DOMAIN wc :
    /\ Emits(id) /\ wc[id].phase = "requested"
    /\ Becomes(Emit(Platform(id, "loading", wc[id].url, wc[id].target,
                             wc[id].canGoBack),
                    id, "did-start-loading", Empty, wc[id].subs),
               Cmd("did-start-loading", id, Empty))

\* the main frame starts to navigate to the requested address, or a
\* sub-frame of the page navigates
DidStartNavigation ==
  \E id \in DOMAIN wc, isMainFrame \in BOOLEAN :
    /\ Emits(id)
    /\ IF isMainFrame THEN wc[id].phase = "loading"
                      ELSE wc[id].phase = "committed"
    /\ LET href == IF isMainFrame THEN wc[id].target ELSE Web IN
       Becomes(Emit(Platform(id, IF isMainFrame THEN "navigating"
                                                ELSE wc[id].phase,
                             wc[id].url, wc[id].target, wc[id].canGoBack),
                    id, "did-start-navigation",
                    [href |-> href, isMainFrame |-> isMainFrame],
                    wc[id].subs),
               Cmd(IF isMainFrame THEN "did-start-navigation"
                                  ELSE "did-start-navigation-subframe", id, href))

\* the server redirects the navigation of a network address
WillRedirect ==
  \E id \in DOMAIN wc, href \in {<<"http://b/">>} :
    /\ Emits(id) /\ wc[id].phase = "navigating" /\ wc[id].target = Web
    /\ Becomes(Emit(Platform(id, "navigating", wc[id].url, href,
                             wc[id].canGoBack),
                    id, "will-redirect", href, wc[id].subs),
               Cmd("will-redirect", id, href))

\* the navigation commits: getURL() becomes the address navigated to; the
\* class subscribes no listener to this
DidNavigate ==
  \E id \in DOMAIN wc :
    /\ Emits(id) /\ wc[id].phase = "navigating"
    /\ Becomes(Platform(id, "committed", wc[id].target, wc[id].target,
                        wc[id].canGoBack \/ wc[id].url # Empty),
               Cmd("did-navigate", id, wc[id].target))

\* the navigation fails before it commits; the error page itself loads
DidFailLoad ==
  \E id \in DOMAIN wc :
    /\ Emits(id) /\ wc[id].phase = "navigating"
    /\ ~Includes(wc[id].target, FileUrl(<<"web_fail_code">>))
    /\ Becomes(Emit(State, id, "did-fail-load", wc[id].target, wc[id].subs),
               Cmd("did-fail-load", id, wc[id].target))

PageTitleUpdated ==
  \E id \in DOMAIN wc, title \in {"T"} :
    /\ Emits(id) /\ wc[id].phase = "committed"
    /\ Becomes(Emit(State, id, "page-title-updated", title, wc[id].subs),
               Cmd("page-title-updated", id, <<title>>))

PageFaviconUpdated ==
  \E id \in DOMAIN wc, favicon \in {"ico"} :
    /\ Emits(id) /\ wc[id].phase = "committed"
    /\ Becomes(Emit(State, id, "page-favicon-updated", favicon, wc[id].subs),
               Cmd("page-favicon-updated", id, <<favicon>>))

DomReady ==
  \E id \in DOMAIN wc :
    /\ Emits(id) /\ wc[id].phase = "committed"
    /\ Becomes(Emit(State, id, "dom-ready", Empty, wc[id].subs),
               Cmd("dom-ready", id, Empty))

DidStopLoading ==
  \E id \in DOMAIN wc :
    /\ Emits(id) /\ wc[id].phase \in {"loading", "committed"}
    /\ Becomes(Emit(Platform(id, "idle", wc[id].url, wc[id].target,
                             wc[id].canGoBack),
                    id, "did-stop-loading", Empty, wc[id].subs),
               Cmd("did-stop-loading", id, Empty))

\* one more ipc message is handled
Counted == msgs < MaxMsgs /\ msgs' = msgs + 1

\* the navigation of the views: ipc messages, and the events of the views
NavNext ==
  \/ ControlReady(NavMaxViews) /\ Counted
  \/ NewTabMsg(NavMaxViews) /\ Counted
  \/ UrlEnterMsg /\ Counted
  \/ ActMsg /\ Counted
  \/ DidStartLoading /\ UNCHANGED msgs
  \/ DidStartNavigation /\ UNCHANGED msgs
  \/ WillRedirect /\ UNCHANGED msgs
  \/ DidNavigate /\ UNCHANGED msgs
  \/ DidFailLoad /\ UNCHANGED msgs
  \/ DidStopLoading /\ UNCHANGED msgs

\* the program constructed with an empty start page
NavInit == Init /\ options.startPage = Empty

NavSpec == NavInit /\ [][NavNext]_vars

\* --------------------------------------------- the store and the events
EvMaxViews == 2
EvMaxMsgs == 2

\* one more ipc message is handled
EvCounted == msgs < EvMaxMsgs /\ msgs' = msgs + 1

\* tabs are opened, switched, closed and navigated while their views emit
\* the events of their navigations
EvNext ==
  \/ ControlReady(EvMaxViews) /\ EvCounted
  \/ NewTabMsg(EvMaxViews) /\ EvCounted
  \/ SwitchTabMsg(EvMaxViews) /\ EvCounted
  \/ CloseTabMsg(EvMaxViews) /\ EvCounted
  \/ UrlChangeMsg /\ EvCounted
  \/ UrlEnterMsg /\ EvCounted
  \/ DidStartLoading /\ UNCHANGED msgs
  \/ DidStartNavigation /\ UNCHANGED msgs
  \/ DidNavigate /\ UNCHANGED msgs
  \/ PageTitleUpdated /\ UNCHANGED msgs
  \/ PageFaviconUpdated /\ UNCHANGED msgs
  \/ DomReady /\ UNCHANGED msgs
  \/ DidStopLoading /\ UNCHANGED msgs

\* the program constructed with a start page and a blank page
EvInit == Init /\ options = [blankPage |-> BlankUrl, startPage |-> Web]

EvSpec == EvInit /\ [][EvNext]_vars

\* ------------------------------------------- windows asked for by pages
NewWinMaxViews == 3

\* the page shown in a view asks for a new window
NewWindow(limit) ==
  \E id \in DOMAIN wc, newUrl \in {Web, AboutBlank, NotAUrl},
     disposition \in {"foreground-tab", "background-tab", "new-window"} :
    /\ Emits(id) /\ wc[id].url # Empty
    /\ nextId <= limit
    /\ Becomes(Emit(State, id, "new-window",
                    [url |-> newUrl, disposition |-> disposition],
                    wc[id].subs),
               Cmd("new-window", id, newUrl) @@ [disposition |-> disposition])

\* tabs are opened and switched, their views load, and the pages ask for
\* new windows
NewWinNext ==
  \/ ControlReady(NewWinMaxViews) /\ UNCHANGED msgs
  \/ SwitchTabMsg(NewWinMaxViews) /\ UNCHANGED msgs
  \/ DidStartLoading /\ UNCHANGED msgs
  \/ DidStartNavigation /\ UNCHANGED msgs
  \/ DidNavigate /\ UNCHANGED msgs
  \/ NewWindow(NewWinMaxViews) /\ UNCHANGED msgs

NewWinSpec == EvInit /\ [][NewWinNext]_vars

\* ------------------------------------------ tabs closed while they load
CloseMaxViews == 2
CloseMaxMsgs == 4

\* one more ipc message is handled
CloseCounted == msgs < CloseMaxMsgs /\ msgs' = msgs + 1

\* tabs are opened, closed and switched while their views load, and the
\* address bar is typed into
CloseNext ==
  \/ ControlReady(CloseMaxViews) /\ CloseCounted
  \/ CloseTabMsg(CloseMaxViews) /\ CloseCounted
  \/ SwitchTabMsg(CloseMaxViews) /\ CloseCounted
  \/ UrlChangeMsg /\ CloseCounted
  \/ DidStartLoading /\ UNCHANGED msgs
  \/ DidStartNavigation /\ UNCHANGED msgs
  \/ DidNavigate /\ UNCHANGED msgs
  \/ PageTitleUpdated /\ UNCHANGED msgs
  \/ DidStopLoading /\ UNCHANGED msgs

CloseSpec == EvInit /\ [][CloseNext]_vars

\* ------------------------------------------------- shutdown of the window
ShutMaxViews == 2

\* the channels of `channels`
Channels == {"control-ready", "url-change", "url-enter", "act", "new-tab",
             "switch-tab", "close-tab"}

\* the listener of a channel of `channels`, applied to the arguments
Handled(s, channel, id, url) ==
  CASE channel = "control-ready" -> ControlReadyH(s)
    [] channel = "url-change" -> UrlChange(s, url)
    [] channel = "url-enter" -> LoadURL(s, url)
    [] channel = "act" -> WebContentsAct(s, "reload")
    [] channel = "new-tab" -> NewTab(s, url, Null)
    [] channel = "switch-tab" -> SwitchTab(s, id)
    [] channel = "close-tab" -> CloseTab(s, id)

\* a message on a channel of `channels` sent by the control view of another
\* BrowserLikeWindow of the process
ForeignMsg(limit) ==
  \E channel \in Channels, id \in IdArgs(limit) :
    /\ channel \in {"control-ready", "new-tab"} => nextId <= limit
    /\ Becomes(Deliver(State, Other, Handled(State, channel, id, Web)),
               Cmd("foreign", id, <<channel>>))

\* the window is closed
WinClosed ==
  /\ controlView
  /\ Becomes(WinClosedH(State), Cmd("closed", Null, Empty))

\* ipc message 'set-browseview' (url), from any sender
SetBrowseViewMsg ==
  Becomes(SetBrowseViewH(State), Cmd("set-browseview", Null, Web))

\* ipc message 'print-webContent', from any sender: every listener that
\* loadURL has bound runs
PrintMsg ==
  Becomes(PrintListeners(State, printers), Cmd("print-webContent", Null, Empty))

\* tabs are opened, switched and closed, another window sends messages, and
\* the window is closed
ShutNext ==
  \/ ControlReady(ShutMaxViews) /\ UNCHANGED msgs
  \/ NewTabMsg(ShutMaxViews) /\ UNCHANGED msgs
  \/ SwitchTabMsg(ShutMaxViews) /\ UNCHANGED msgs
  \/ CloseTabMsg(ShutMaxViews) /\ UNCHANGED msgs
  \/ ForeignMsg(ShutMaxViews) /\ UNCHANGED msgs
  \/ WinClosed /\ UNCHANGED msgs
  \/ SetBrowseViewMsg /\ UNCHANGED msgs
  \/ PrintMsg /\ UNCHANGED msgs

ShutSpec == Init /\ [][ShutNext]_vars

\* ---------------------------------------------------------------- claims
\* the id newTab gave to the BrowserView it created last
NewestId == nextId - 1

\* C1: after every openTab, closeTab or switchTab command the TabIDs that
\* are keys of the tab config store are exactly the TabIDs of the tab
\* sequence.
C1_StoreKeysEqualTabs ==
  last.op \in {"control-ready", "new-tab", "newTab", "switch-tab", "close-tab"}
    => DOMAIN defTabConfigs = Range(tabs)

\* C2: after every closeTab command the tab sequence is non-empty and the
\* active id is a non-null member of it.
C2_CloseKeepsActiveTab ==
  last.op = "close-tab"
    => Len(tabs) > 0 /\ defCurrentViewId # Null
       /\ defCurrentViewId \in Range(tabs)

\* C3: the active id is null, or a member of the tab sequence whose view is
\* registered and not destroyed.
C3_ActiveIsLiveTab ==
  \/ defCurrentViewId = Null
  \/ /\ defCurrentViewId \in Range(tabs)
     /\ defCurrentViewId \in views
     /\ ~wc[defCurrentViewId].destroyed

\* C4: at most one content view is attached to the window.
C4_AtMostOneAttached == Cardinality(attached) <= 1

\* C5: closeTab(id) of a tab that is in the sequence and is not the active
\* tab leaves the active id unchanged.
C5_CloseInactiveKeepsActive ==
  (last.op = "close-tab" /\ last.id \in Range(last.prevTabs)
     /\ last.id # last.prevId)
    => defCurrentViewId = last.prevId

\* C6: closing the active tab while another tab exists makes the tab that
\* followed it active (the first one when it was last), and the remaining
\* tabs keep their order.
C6_CloseActivePicksFollowing ==
  (last.op = "close-tab" /\ last.id = last.prevId
     /\ last.id \in Range(last.prevTabs) /\ Len(last.prevTabs) >= 2)
    => LET old == last.prevTabs
           p == CHOOSE i \in 1..Len(old) : old[i] = last.id
       IN  /\ defCurrentViewId = IF p = Len(old) THEN old[1] ELSE old[p + 1]
           /\ Len(tabs) = Len(old) - 1
           /\ \A i \in 1..Len(tabs) :
                 tabs[i] = IF i < p THEN old[i] ELSE old[i + 1]

C6_Witness ==
  /\ last.op = "close-tab" /\ last.id = last.prevId
  /\ Len(last.prevTabs) = 3 /\ last.prevTabs[3] = last.id
  /\ defCurrentViewId = last.prevTabs[1]

\* C7: newTab with an anchor that is in the tab sequence puts the new id
\* right after the anchor, newTab without an anchor puts it at the end; the
\* tabs that existed keep their order.
C7_InsertAfterAnchorOrAppend ==
  LET old == last.prevTabs IN
  /\ (last.op = "newTab" /\ last.id \in Range(old))
       => LET p == CHOOSE i \in 1..Len(old) : old[i] = last.id
          IN  /\ Len(tabs) = Len(old) + 1
              /\ tabs[p + 1] = NewestId
              /\ \A i \in 1..Len(old) :
                    old[i] = IF i <= p THEN tabs[i] ELSE tabs[i + 1]
  /\ last.op \in {"new-tab", "control-ready"}
       => tabs = old \o <<NewestId>>

C7_Witness ==
  /\ last.op = "newTab" /\ Len(last.prevTabs) = 2
  /\ last.id = last.prevTabs[1]
  /\ tabs = <<last.prevTabs[1], NewestId, last.prevTabs[2]>>

\* C8: newTab with an anchor that is not in the tab sequence puts the new id
\* at the end of the sequence.
C8_AbsentAnchorAppends ==
  (last.op = "newTab" /\ last.id \notin Range(last.prevTabs))
    => tabs = last.prevTabs \o <<NewestId>>

\* the built-in page that href is the physical location of
IsPhysical(href, page) ==
  Len(href) >= 3 /\ SubSeq(href, 1, 3) = FileUrl(<<page>>)

\* the address under which a built-in page is shown
VirtualOf(page) ==
  <<PX, IF page = "web_fail_code" THEN "network-error" ELSE page>>

\* C9: a navigation start in the main frame, or a redirect, whose location
\* is the physical location of a built-in page writes the virtual address of
\* that page as url and href of the tab's entry, and sends it so.
C9_BuiltinPageShownVirtual ==
  \A page \in BuiltinPages :
    (last.op \in {"did-start-navigation", "will-redirect"}
       /\ IsPhysical(last.url, page))
      => /\ defTabConfigs[last.id].url = VirtualOf(page)
         /\ defTabConfigs[last.id].href = VirtualOf(page)
         /\ \A i \in 1..Len(notes) :
              notes[i].type = "tabs-update"
                => /\ notes[i].confs[last.id].url = VirtualOf(page)
                   /\ notes[i].confs[last.id].href = VirtualOf(page)

\* the href of the entry of the current tab, empty when it has none
CurrentHref ==
  IF defCurrentViewId \in DOMAIN defTabConfigs
       /\ defTabConfigs[defCurrentViewId] # Undef
       /\ "href" \in DOMAIN defTabConfigs[defCurrentViewId]
    THEN defTabConfigs[defCurrentViewId].href ELSE Empty

\* act('reload') issues nothing to a webContents and changes neither the
\* store nor the navigation state of a view
ReloadIgnored == calls' = <<>> /\ defTabConfigs' = defTabConfigs /\ wc' = wc

\* C10 as stated: act('reload') while the entry of the active tab has an
\* empty href reloads nothing and changes nothing.
C10_ReloadWithEmptyHrefIgnored ==
  [][(last'.op = "act" /\ last'.url = <<"reload">>
        /\ CurrentView(State) # Null /\ CurrentHref = Empty)
       => ReloadIgnored]_vars

\* C10: act('reload') while getURL() of the active view is empty (nothing
\* has been loaded into it) reloads nothing and changes nothing.
C10_ReloadWithNothingLoadedIgnored ==
  [][(last'.op = "act" /\ last'.url = <<"reload">>
        /\ CurrentView(State) # Null
        /\ wc[CurrentView(State)].url = Empty)
       => ReloadIgnored]_vars

C10_Witness ==
  /\ last.op = "act" /\ last.url = <<"reload">>
  /\ CurrentView(State) # Null
  /\ wc[CurrentView(State)].url = Empty
  /\ wc[CurrentView(State)].phase = "navigating"
  /\ calls = <<>>

\* C12: control-ready handled by a shell that has created no tab yet leaves
\* exactly one tab, requests the navigation of its view to the configured
\* start page, and sends active-update with the id of the tab.
C12_ControlReadyOpensStartTab ==
  (last.op = "control-ready" /\ last.prevTabs = <<>> /\ NewestId = 1)
    => /\ tabs = <<1>>
       /\ options.startPage # Empty
            => /\ calls = <<[id |-> 1, method |-> "loadURL",
                             arg |-> options.startPage]>>
               /\ wc[1].phase = "requested" /\ wc[1].target = options.startPage
       /\ \E i \in 1..Len(notes) :
            notes[i] = [type |-> "active-update", id |-> 1]
       /\ activeUpdate = [type |-> "active-update", id |-> 1]

C12_Witness ==
  /\ last.op = "control-ready" /\ last.prevTabs = <<>> /\ NewestId = 1
  /\ options.startPage = Web /\ tabs = <<1>> /\ defCurrentViewId = 1

\* C13: switchTab(id) and closeTab(id) with an id that has no view in
\* this.views raise no error and leave the tab sequence, the store, the
\* active id and the attached view unchanged.
C13_UnknownIdIsNoOp ==
  [][(last'.op \in {"switch-tab", "close-tab"} /\ last'.id \notin views)
       => /\ ~err'
          /\ tabs' = tabs
          /\ defTabConfigs' = defTabConfigs
          /\ defCurrentViewId' = defCurrentViewId
          /\ attached' = attached]_vars

\* the action names the control surface is meant to send
SupportedActions == {"back", "forward", "reload", "stop"}

\* C14: act(name) with a name outside back, forward, reload, stop, or with
\* no active tab, invokes nothing on a webContents, raises no error and
\* leaves the tab sequence, the store, the views and the active id unchanged.
C14_UnsupportedActIgnored ==
  [][(last'.op = "act"
        /\ (last'.url[1] \notin SupportedActions \/ CurrentView(State) = Null))
       => /\ calls' = <<>> /\ ~err'
          /\ tabs' = tabs /\ defTabConfigs' = defTabConfigs
          /\ views' = views /\ wc' = wc
          /\ defCurrentViewId' = defCurrentViewId]_vars

\* the state of the window that the messages of the control view act on
Unchanged ==
  /\ tabs' = tabs /\ defTabConfigs' = defTabConfigs
  /\ defCurrentViewId' = defCurrentViewId
  /\ views' = views /\ wc' = wc /\ attached' = attached /\ ipc' = ipc

\* C15: once the window is closed every view is destroyed, and a message
\* that arrives afterwards runs no listener of the window: it changes no
\* state and raises no error.
C15_NothingRunsAfterClosed ==
  [][/\ ~controlView' => /\ views' = {}
                         /\ \A id \in DOMAIN wc' : wc'[id].destroyed
     /\ ~controlView => Unchanged /\ calls' = <<>> /\ notes' = <<>> /\ ~err']_vars

\* C16: no webContents is destroyed twice; after close-tab and after the
\* window is closed no view that is not destroyed is missing from this.tabs,
\* and after the window is closed every view created has been destroyed
\* exactly once.
C16_DestroyedExactlyOnce ==
  /\ \A id \in DOMAIN wc : wc[id].destroys <= 1
  /\ last.op \in {"close-tab", "closed"}
       => \A id \in DOMAIN wc : ~wc[id].destroyed => id \in Range(tabs)
  /\ ~controlView => \A id \in DOMAIN wc : wc[id].destroys = 1

C16_Witness ==
  /\ last.op = "closed" /\ Len(tabs) = 1 /\ Cardinality(DOMAIN wc) = 2
  /\ \A id \in DOMAIN wc : wc[id].destroys = 1

\* C18: a message on a channel of `channels` sent by the control view of
\* another window changes nothing of this window: no state, no call to a
\* webContents, no message to the control view.
C18_ForeignMessageChangesNothing ==
  [][last'.op = "foreign"
       => Unchanged /\ calls' = <<>> /\ notes' = <<>> /\ ~err'
          /\ nextId' = nextId /\ activeUpdate' = activeUpdate
          /\ tabsUpdate' = tabsUpdate]_vars

C18_Witness ==
  /\ last.op = "foreign" /\ last.url = <<"close-tab">>
  /\ controlView /\ last.id \in Range(tabs) /\ last.id \in views
  /\ Len(tabs) = 2

\* page-title-updated is handled for a tab that has an entry in the store
TitleMerged ==
  /\ last'.op = "page-title-updated"
  /\ last'.id \in DOMAIN defTabConfigs /\ defTabConfigs[last'.id] # Undef

\* the entries of the other tabs are what they were
OtherEntriesKept ==
  /\ DOMAIN defTabConfigs' = DOMAIN defTabConfigs
  /\ \A id \in DOMAIN defTabConfigs \ {last'.id} :
       defTabConfigs'[id] = defTabConfigs[id]

\* the entry of the tab has the title, and its fields outside `changing`
\* are what they were
FieldsKept(changing) ==
  LET old == defTabConfigs[last'.id]
      new == defTabConfigs'[last'.id]
  IN  /\ new.title = last'.url[1]
      /\ \A f \in DOMAIN old \ changing :
           f \in DOMAIN new /\ new[f] = old[f]

\* C11 as stated: a merge of {title} into an existing entry changes the
\* title and leaves every other field of the entry, canGoBack and
\* canGoForward among them, and every other entry as it was.
C11_TitleMergeKeepsAllOtherFields ==
  [][TitleMerged => FieldsKept({"title"}) /\ OtherEntriesKept]_vars

\* C11: a merge of {title} into an existing entry changes the title, sets
\* canGoBack and canGoForward to what the view of the tab answers, and
\* leaves every other field of the entry and every other entry as it was.
C11_TitleMergeKeepsFieldsButHistory ==
  [][TitleMerged
       => /\ FieldsKept({"title", "canGoBack", "canGoForward"})
          /\ defTabConfigs'[last'.id].canGoBack = wc[last'.id].canGoBack
          /\ defTabConfigs'[last'.id].canGoForward = wc[last'.id].canGoForward
          /\ OtherEntriesKept]_vars

C11_Witness ==
  /\ last.op = "page-title-updated"
  /\ defTabConfigs[last.id].title = "T"
  /\ defTabConfigs[last.id].canGoBack
  /\ defTabConfigs[last.id].href = Web
  /\ defTabConfigs[last.id].isLoading

\* C17: once control-ready has been handled, the active-update sent last
\* carries this.currentViewId and the tabs-update sent last carries the
\* store and this.tabs, after every message and every event.
C17_LastUpdatesAreCurrent ==
  ipc => /\ activeUpdate = [type |-> "active-update", id |-> defCurrentViewId]
         /\ tabsUpdate = [type |-> "tabs-update", confs |-> defTabConfigs,
                          tabs |-> tabs]

C17_Witness ==
  /\ ipc /\ last.op = "close-tab" /\ last.id = last.prevId
  /\ last.prevTabs = <<last.id>> /\ tabs = <<NewestId>>
  /\ activeUpdate.id = NewestId /\ tabsUpdate.tabs = tabs
  /\ tabsUpdate.confs[last.id] = Undef
  /\ tabsUpdate.confs[NewestId].title = BlankTitle

\* the events whose listener merges into the store
MergeEvents == {"did-start-loading", "did-fail-load", "did-start-navigation",
                "will-redirect", "page-title-updated", "page-favicon-updated",
                "did-stop-loading"}

\* the tabs-update messages sent during the step
TabsUpdates == {i \in 1..Len(notes) : notes[i].type = "tabs-update"}

\* C19: loadURL subscribes the listeners of a webContents at most once, so
\* an event of a view runs each listener once: one merge into the store (one
\* tabs-update) for an event that is merged, one focus for dom-ready.
C19_ListenersSubscribedOnce ==
  /\ \A id \in DOMAIN wc : wc[id].subs <= 1
  /\ (last.op \in MergeEvents /\ ipc) => Cardinality(TabsUpdates) = 1
  /\ last.op = "dom-ready"
       => calls = <<[id |-> last.id, method |-> "focus", arg |-> Empty]>>

C19_Witness ==
  /\ last.op = "did-stop-loading" /\ ipc
  /\ wc[last.id].canGoBack /\ wc[last.id].subs = 1
  /\ Cardinality(TabsUpdates) = 1

\* a navigation has been asked of the webContents and has not committed
MidLoad == {"requested", "loading", "navigating"}

\* C20: once a tab is closed while its view loads, no event of that view is
\* handled and the store has no entry under its id again.
C20_ClosedMidLoadNeverWritten ==
  \A id \in DOMAIN wc :
    (wc[id].destroyed /\ wc[id].phase \in MidLoad)
      => /\ ~(last.op \in MergeEvents \cup {"dom-ready", "did-navigate"}
                /\ last.id = id)
         /\ id \in DOMAIN defTabConfigs => defTabConfigs[id] = Undef

\* the events of a webContents that the window listens to
ViewEvents == MergeEvents \cup {"did-start-navigation-subframe", "dom-ready"}

\* C21: an event of the view of a tab is merged into the entry of that tab,
\* whichever tab is active, and leaves the entry of every other tab as it
\* was.
C21_EventWritesOwnEntryOnly ==
  [][last'.op \in ViewEvents
       => /\ DOMAIN defTabConfigs' \subseteq DOMAIN defTabConfigs \cup {last'.id}
          /\ \A id \in DOMAIN defTabConfigs \ {last'.id} :
               id \in DOMAIN defTabConfigs'
                 /\ defTabConfigs'[id] = defTabConfigs[id]
          /\ last'.op = "did-start-loading"
               => defTabConfigs'[last'.id].isLoading
          /\ last'.op = "did-stop-loading"
               => ~defTabConfigs'[last'.id].isLoading
          /\ last'.op = "did-start-navigation"
               => defTabConfigs'[last'.id].href = Rewrite(State, last'.url)
          /\ last'.op = "page-title-updated"
               => defTabConfigs'[last'.id].title = last'.url[1]
          /\ last'.op = "page-favicon-updated"
               => defTabConfigs'[last'.id].favicon = last'.url[1]]_vars

C21_Witness ==
  /\ last.op = "did-start-navigation" /\ Len(tabs) = 2
  /\ last.id \in Range(tabs) /\ last.id # defCurrentViewId
  /\ defTabConfigs[last.id].href = Web
  /\ "href" \notin DOMAIN defTabConfigs[defCurrentViewId]

\* C22: url-enter with the px:// address of a built-in page asks the view
\* of the active tab to load the file of that page, on the first navigation
\* of the view as on a later one; no px:// address is passed to a webContents.
C22_VirtualNavigatesPhysical ==
  /\ (last.op = "url-enter" /\ Includes(last.url, <<PX>>)
        /\ CurrentView(State) # Null)
       => calls = <<[id |-> CurrentView(State), method |-> "loadURL",
                     arg |-> FileUrl(ReplaceFirst(last.url, PX))]>>
  /\ \A i \in 1..Len(calls) :
       calls[i].method = "loadURL" => ~Includes(calls[i].arg, <<PX>>)

\* the tab sequence with id put right after the tab t
PlacedAfter(old, t, id) ==
  LET p == CHOOSE i \in 1..Len(old) : old[i] = t
  IN  SubSeq(old, 1, p) \o <<id>> \o SubSeq(old, p + 1, Len(old))

\* C23: a new-window request of the page of a tab T whose address has no
\* host or cannot be parsed creates no tab, changes neither the tab
\* sequence nor the store nor the active id and raises no error; a request
\* with a host and a tab disposition opens a tab right after T.
C23_NewWindowDroppedOrTabAfter ==
  [][last'.op = "new-window"
       => /\ (~UrlParses(last'.url) \/ UrlHost(last'.url) = "")
               => /\ ~err' /\ nextId' = nextId /\ tabs' = tabs
                  /\ defTabConfigs' = defTabConfigs
                  /\ defCurrentViewId' = defCurrentViewId
          /\ (UrlParses(last'.url) /\ UrlHost(last'.url) # ""
                /\ last'.disposition # "new-window")
               => /\ ~err'
                  /\ tabs' = PlacedAfter(tabs, last'.id, nextId)
                  /\ defCurrentViewId' = nextId]_vars

\* C24: whenever this.currentViewId is set, the BrowserView attached to the
\* window is the view of that tab and no other, and no view whose
\* webContents is destroyed is attached.
C24_AttachedIsActiveView ==
  /\ defCurrentViewId # Null => attached = {defCurrentViewId}
  /\ \A id \in attached : ~wc[id].destroyed

\* the order list of the tabs-update sent last before the i-th message of
\* the step, empty when none has been sent
OrderBefore(i) ==
  LET sent == {j \in 1..(i - 1) : notes'[j].type = "tabs-update"}
  IN  IF sent # {}
        THEN notes'[CHOOSE j \in sent : \A k \in sent : k <= j].tabs
      ELSE IF tabsUpdate = NoNote THEN <<>> ELSE tabsUpdate.tabs

\* C25: every active-update sent to the control view carries an id that is
\* in the tabs of the tabs-update sent last before it.
C25_ActiveUpdateNamesKnownTab ==
  [][\A i \in 1..Len(notes') :
       notes'[i].type = "active-update"
         => notes'[i].id \in Range(OrderBefore(i))]_vars

\* C26: one print-webContent message prints the view of the active tab
\* once, and does nothing and raises no error when there is no active view.
C26_PrintsActiveViewOnce ==
  [][last'.op = "print-webContent"
       => /\ ~err'
          /\ calls' = IF CurrentView(State) # Null
                        THEN <<[id |-> CurrentView(State), method |-> "print",
                                arg |-> Empty]>>
                        ELSE <<>>]_vars

====
